---- MODULE Spec2Model ----
(***************************************************************************)
(* A model of cgt_data_collector.py: the ETF holdings adapters, the merge  *)
(* of get_combined_holdings, the orchestrator's collect_all_data, the      *)
(* module-level global_data_store and the handlers / periodic task that    *)
(* read and replace it.                                                    *)
(*                                                                         *)
(* Encodings.  A Python str is a sequence of one-character strings.        *)
(* Weights are integers in hundredths of a percent (0.1 is 10).  Python's  *)
(* None is NoneVal where the other values of the field are integers, and a *)
(* [none |-> TRUE] record where they are lists.                            *)
(***************************************************************************)
EXTENDS Integers, Sequences, FiniteSets, TLC

(***************************************************************************)
(* Python values                                                           *)
(***************************************************************************)
NoneVal == -1          \* None in an integer-valued field
BadNum == -2           \* a raw value float() raises on ("n/a", a dict, ...)
Missing == -3          \* the key is absent from the raw JSON object
MissingStr == <<"<missing>">>   \* the same, where the value would be a str

EmptyStr == << >>

UpperToLower ==
    [A |-> "a", B |-> "b", C |-> "c", D |-> "d", E |-> "e", F |-> "f",
     G |-> "g", H |-> "h", I |-> "i", J |-> "j", K |-> "k", L |-> "l",
     M |-> "m", N |-> "n", O |-> "o", P |-> "p", Q |-> "q", R |-> "r",
     S |-> "s", T |-> "t", U |-> "u", V |-> "v", W |-> "w", X |-> "x",
     Y |-> "y", Z |-> "z"]

\* str.lower() on one character
LowerChar(c) == IF c \in DOMAIN UpperToLower THEN UpperToLower[c] ELSE c

\* str.upper() on one character
UpperChar(c) ==
    IF \E u \in DOMAIN UpperToLower : UpperToLower[u] = c
    THEN CHOOSE u \in DOMAIN UpperToLower : UpperToLower[u] = c
    ELSE c

Lower(s) == [i \in 1..Len(s) |-> LowerChar(s[i])]

Upper(s) == [i \in 1..Len(s) |-> UpperChar(s[i])]

IsSpace(c) == c = " "

\* str.strip(): drop leading and trailing whitespace
Strip(s) ==
    LET nonsp == {i \in 1..Len(s) : ~IsSpace(s[i])}
    IN  IF nonsp = {} THEN EmptyStr
        ELSE LET lo == CHOOSE i \in nonsp : \A j \in nonsp : i <= j
                 hi == CHOOSE i \in nonsp : \A j \in nonsp : j <= i
             IN  SubSeq(s, lo, hi)

\* Python's `a in b` on two str values
Contains(a, b) ==
    \E k \in 0..(Len(b) - Len(a)) : SubSeq(b, k + 1, k + Len(a)) = a

(***************************************************************************)
(* ETFHoldingsScraper                                                      *)
(***************************************************************************)
MinWeight == 10        \* the literal 0.1 of the two adapters, in hundredths

Billion == 1000000000
Million == 1000000

\* A market_cap string is kept in three parts: f"${number}{suffix}" has
\* prefix "$"; any other text is all prefix.
Text(prefix, num, suffix) == [prefix |-> prefix, num |-> num, suffix |-> suffix]

NA == Text("N/A", 0, "")

\* f"{x:.1f}" of v / unit for a non-negative integer v, as tenths; the raw
\* values of this model avoid exact ties, where binary floats decide.
Tenths(v, unit) ==
    LET q == v \div (unit \div 10)
        r == v % (unit \div 10)
    IN  IF 2 * r > unit \div 10 THEN q + 1 ELSE q

\* _format_market_value; BadNum stands for the raw string "n/a", which
\* float() rejects and str() returns unchanged.
FormatMarketValue(value) ==
    IF value = Missing \/ value = NoneVal \/ value = 0 THEN NA
    ELSE IF value = BadNum THEN Text("n/a", 0, "")
    ELSE IF value >= Billion THEN Text("$", Tenths(value, Billion), "B")
    ELSE IF value >= Million THEN Text("$", Tenths(value, Million), "M")
    ELSE Text("$", value, "")

\* truth value of a market_cap string: only "" is false
Truthy(market_cap) == market_cap.prefix # ""

\* dict.get(key, default) on a raw field
GetOr(raw, default) == IF raw = Missing THEN default ELSE raw

GetStr(raw, default) == IF raw = MissingStr THEN default ELSE raw

\* float(x) raises on these
FloatRaises(raw) == raw = BadNum \/ raw = NoneVal

\* Company(symbol, name, website=None, market_cap, xbi_weight, nbi_weight)
Company(symbol, name, market_cap, xbi_weight, nbi_weight) ==
    [symbol |-> symbol, name |-> name, website |-> NoneVal,
     market_cap |-> market_cap, xbi_weight |-> xbi_weight,
     nbi_weight |-> nbi_weight]

\* the condition of the two adapters' `if float(...) > 0.1`
Significant(weight) == weight > MinWeight

\* the holdings of a feed the loop keeps, in order
KeptHoldings(holdings) ==
    SelectSeq(holdings, LAMBDA h : Significant(GetOr(h.weight, 0)))

\* some holding of the payload makes float() raise inside the loop
LoopRaises(holdings) ==
    \E i \in 1..Len(holdings) : FloatRaises(GetOr(holdings[i].weight, 0))

PyList(items) == [none |-> FALSE, items |-> items]
PyNone == [none |-> TRUE, items |-> << >>]

XbiCompany(h) ==
    Company(Strip(GetStr(h.symbol, EmptyStr)), Strip(GetStr(h.name, EmptyStr)),
            FormatMarketValue(h.marketValue), GetOr(h.weight, 0), NoneVal)

NbiCompany(h) ==
    Company(Strip(GetStr(h.symbol, EmptyStr)), Strip(GetStr(h.name, EmptyStr)),
            FormatMarketValue(h.marketValue), NoneVal, GetOr(h.weight, 0))

\* get_xbi_holdings on one upstream outcome: a response with status 200 and
\* a payload ("ok"), another status ("status"), or an exception from the
\* request or from response.json() ("error").
GetXbiHoldings(outcome) ==
    IF outcome.kind = "error" THEN PyList(<< >>)
    ELSE IF outcome.kind = "status" THEN PyNone
    ELSE IF LoopRaises(outcome.holdings) THEN PyList(<< >>)
    ELSE LET kept == KeptHoldings(outcome.holdings)
         IN  PyList([i \in 1..Len(kept) |-> XbiCompany(kept[i])])

GetNbiHoldings(outcome) ==
    IF outcome.kind = "error" THEN PyList(<< >>)
    ELSE IF outcome.kind = "status" THEN PyNone
    ELSE IF LoopRaises(outcome.holdings) THEN PyList(<< >>)
    ELSE LET kept == KeptHoldings(outcome.holdings)
         IN  PyList([i \in 1..Len(kept) |-> NbiCompany(kept[i])])

\* position of a key in the insertion-ordered company_dict, 0 if absent
IndexOf(dict, symbol) ==
    IF \E i \in 1..Len(dict) : dict[i].symbol = symbol
    THEN CHOOSE i \in 1..Len(dict) : dict[i].symbol = symbol
    ELSE 0

\* a dict that takes every record as a new key
DictPut_Append(dict, company) == Append(dict, company)

\* company_dict[company.symbol] = company
DictPut(dict, company) ==
    LET i == IndexOf(dict, company.symbol)
    IN  IF i = 0 THEN Append(dict, company)
        ELSE [dict EXCEPT ![i] = company]

\* the body of `if not existing.market_cap and company.market_cap`
BackfillCap(existing, company) ==
    IF ~Truthy(existing.market_cap) /\ Truthy(company.market_cap)
    THEN company.market_cap
    ELSE existing.market_cap

\* one iteration of `for company in nbi_companies`
MergeNbi(dict, company) ==
    LET i == IndexOf(dict, company.symbol)
    IN  IF i = 0 THEN Append(dict, company)
        ELSE [dict EXCEPT ![i] =
                 [dict[i] EXCEPT !.nbi_weight = company.nbi_weight,
                                 !.market_cap = BackfillCap(dict[i], company)]]

\* `for company in xbi_companies`, from a dict and the part of the list
\* still to come.  (The test of Len makes TLC evaluate the dict of this
\* iteration before it goes on to the next.)
RECURSIVE FoldXbi(_, _)
FoldXbi(dict, xbi) ==
    IF xbi = << >> THEN dict
    ELSE LET put == DictPut(dict, Head(xbi))
         IN  IF Len(put) > 0 THEN FoldXbi(put, Tail(xbi)) ELSE put

\* `for company in nbi_companies`, likewise
RECURSIVE FoldNbi(_, _)
FoldNbi(dict, nbi) ==
    IF nbi = << >> THEN dict
    ELSE LET merged == MergeNbi(dict, Head(nbi))
         IN  IF Len(merged) > 0 THEN FoldNbi(merged, Tail(nbi)) ELSE merged

\* iterating None raises TypeError in get_combined_holdings
CombineRaises(xbi_companies, nbi_companies) ==
    xbi_companies.none \/ nbi_companies.none

\* list(company_dict.values()) of get_combined_holdings
CombinedHoldings(xbi_companies, nbi_companies) ==
    FoldNbi(FoldXbi(<< >>, xbi_companies.items), nbi_companies.items)

\* The same two loops with the Company objects told apart.  The objects of
\* the two lists are the positions of heap, the first source's first; the
\* dict holds objects, not copies, so the assignments of the second loop
\* change the object that a source list still holds.
RefIndexOf(m, symbol) ==
    IF \E i \in 1..Len(m.dict) : m.heap[m.dict[i]].symbol = symbol
    THEN CHOOSE i \in 1..Len(m.dict) : m.heap[m.dict[i]].symbol = symbol
    ELSE 0

\* company_dict[company.symbol] = company, for the object r
PutRef(m, r) ==
    LET i == RefIndexOf(m, m.heap[r].symbol)
    IN  IF i = 0 THEN [m EXCEPT !.dict = Append(m.dict, r)]
        ELSE [m EXCEPT !.dict[i] = r]

\* a second loop that adds the weight to the one the record has
MergeNbiInPlace_Accumulate(m, r) ==
    LET i == RefIndexOf(m, m.heap[r].symbol)
    IN  IF i = 0 THEN [m EXCEPT !.dict = Append(m.dict, r)]
        ELSE LET e == m.dict[i]
             IN  [m EXCEPT !.heap[e].nbi_weight =
                      (IF m.heap[e].nbi_weight = NoneVal THEN 0
                       ELSE m.heap[e].nbi_weight) + m.heap[r].nbi_weight]

\* one iteration of `for company in nbi_companies`, for the object r
MergeNbiInPlace(m, r) ==
    LET i == RefIndexOf(m, m.heap[r].symbol)
    IN  IF i = 0 THEN [m EXCEPT !.dict = Append(m.dict, r)]
        ELSE LET e == m.dict[i]
             IN  [m EXCEPT !.heap[e] =
                      [m.heap[e] EXCEPT
                          !.nbi_weight = m.heap[r].nbi_weight,
                          !.market_cap = BackfillCap(m.heap[e], m.heap[r])]]

\* the two loops from object k on; the first nx objects are the first
\* source's
RECURSIVE FoldInPlace(_, _, _)
FoldInPlace(m, k, nx) ==
    IF k > Len(m.heap) THEN m
    ELSE LET step == IF k <= nx THEN PutRef(m, k) ELSE MergeNbiInPlace(m, k)
         IN  IF Len(step.dict) > 0 /\ Len(step.heap) > 0
             THEN FoldInPlace(step, k + 1, nx)
             ELSE step

\* get_combined_holdings on the objects of heap, from an empty company_dict
MergeInPlace(heap, nx) == FoldInPlace([heap |-> heap, dict |-> << >>], 1, nx)

\* list(company_dict.values())
DictValues(m) == [i \in 1..Len(m.dict) |-> m.heap[m.dict[i]]]

\* the merge run on two lists, and then run again on the same lists
MergedTwice(xbi, nbi) ==
    LET first == MergeInPlace(xbi \o nbi, Len(xbi))
    IN  DictValues(MergeInPlace(first.heap, Len(xbi)))

(***************************************************************************)
(* FDADataCollector and ClinicalTrialsCollector                            *)
(***************************************************************************)
Unknown == <<"U", "n", "k", "n", "o", "w", "n">>

\* one entry of _process_drug_approvals
Approval(drug) ==
    [company |-> GetStr(drug.sponsor_name, Unknown),
     application_number |-> drug.application_number]

\* get_recent_drug_approvals: every path returns a list
GetRecentDrugApprovals(outcome) ==
    IF outcome.kind = "ok"
    THEN [i \in 1..Len(outcome.results) |-> Approval(outcome.results[i])]
    ELSE << >>

\* one entry of _process_trials; _safe_get gives '' for an absent field
ProcessedTrial(trial) ==
    [nct_id |-> GetStr(trial.NCTId, EmptyStr),
     sponsor |-> GetStr(trial.LeadSponsorName, EmptyStr)]

\* search_company_trials: a status other than 200 falls out of the `if`
\* and the coroutine returns None
SearchCompanyTrials(outcome) ==
    IF outcome.kind = "error" THEN PyList(<< >>)
    ELSE IF outcome.kind = "status" THEN PyNone
    ELSE PyList([i \in 1..Len(outcome.studies) |->
                    ProcessedTrial(outcome.studies[i])])

(***************************************************************************)
(* CGTDataOrchestrator                                                     *)
(***************************************************************************)
TopCompanies == 5      \* companies[:5]

\* `x or 0` on a weight
OrZero(w) == IF w = NoneVal \/ w = 0 THEN 0 ELSE w

CompanyDict(c) ==
    [symbol |-> c.symbol, name |-> c.name, website |-> c.website,
     market_cap |-> c.market_cap, xbi_weight |-> OrZero(c.xbi_weight),
     nbi_weight |-> OrZero(c.nbi_weight)]

Min(a, b) == IF a < b THEN a ELSE b

\* seq[:n]
Prefix(seq, n) == SubSeq(seq, 1, Min(n, Len(seq)))

\* self.data['companies'] = [{...} for c in companies[:max_companies]]
SnapshotCompanies(companies, max_companies) ==
    LET cut == Prefix(companies, max_companies)
    IN  [i \in 1..Len(cut) |-> CompanyDict(cut[i])]

\* self.data of a new orchestrator
NewData ==
    [companies |-> << >>, fda_approvals |-> << >>, clinical_trials |-> << >>,
     collection_timestamp |-> NoneVal]

\* the next index after `from` of `for company in companies[:5]` whose
\* company passes `if company and company.name`; 0 when the loop is over
NextSearched(companies, from) ==
    LET top == Prefix(companies, TopCompanies)
        cand == {i \in (from + 1)..Len(top) : top[i].name # EmptyStr}
    IN  IF cand = {} THEN 0
        ELSE CHOOSE i \in cand : \A j \in cand : i <= j

\* the positions in companies of the companies the loop searches trials
\* for, in the order of the searches, after position `from`
RECURSIVE SearchedFrom(_, _)
SearchedFrom(companies, from) ==
    LET i == NextSearched(companies, from)
    IN  IF i = 0 THEN << >> ELSE <<i>> \o SearchedFrom(companies, i)

(***************************************************************************)
(* global_data_store                                                       *)
(***************************************************************************)
Keys == {"companies", "fda_approvals", "clinical_trials", "collection_timestamp"}

EmptyStore == [k \in {} |-> NoneVal]

\* global_data_store.get(key, default)
StoreGet(st, key, default) == IF key \in DOMAIN st THEN st[key] ELSE default

\* an update that leaves the timestamp of the store alone
StoreUpdate_SkipTimestamp(st, data) ==
    [k \in DOMAIN st \cup (DOMAIN data \ {"collection_timestamp"}) |->
        IF k \in DOMAIN data \ {"collection_timestamp"} THEN data[k] ELSE st[k]]

\* global_data_store.update(data)
StoreUpdate(st, data) ==
    [k \in DOMAIN st \cup DOMAIN data |->
        IF k \in DOMAIN data THEN data[k] ELSE st[k]]

(***************************************************************************)
(* Reads of the store: the GET handlers.  None of them awaits, so each is  *)
(* one step of the event loop.                                             *)
(***************************************************************************)
\* get_companies / get_fda_approvals / get_clinical_trials
GetList(st, key) == StoreGet(st, key, << >>)

\* get_stats
GetStats(st) ==
    [companies_count |-> Len(StoreGet(st, "companies", << >>)),
     fda_approvals_count |-> Len(StoreGet(st, "fda_approvals", << >>)),
     clinical_trials_count |-> Len(StoreGet(st, "clinical_trials", << >>)),
     last_updated |-> StoreGet(st, "collection_timestamp", NoneVal),
     status |-> "active"]

\* next((c for c in companies if c['symbol'] == symbol.upper()), None),
\* as an index into companies, 0 for None
FindCompany(companies, symbol) ==
    LET hits == {i \in 1..Len(companies) : companies[i].symbol = Upper(symbol)}
    IN  IF hits = {} THEN 0 ELSE CHOOSE i \in hits : \A j \in hits : i <= j

\* the test of the fda_data comprehension
ApprovalMatches(d, company) == Contains(Lower(d.company), Lower(company.name))

\* the test of the trials comprehension
TrialMatches(t, company) == Contains(Lower(company.name), Lower(t.sponsor))

FilterApprovals(approvals, company) ==
    SelectSeq(approvals, LAMBDA d : ApprovalMatches(d, company))

FilterTrials(trials, company) ==
    SelectSeq(trials, LAMBDA t : TrialMatches(t, company))

\* get_company_details
CompanyDetails(st, symbol) ==
    LET companies == StoreGet(st, "companies", << >>)
        i == FindCompany(companies, symbol)
    IN  IF i = 0
        THEN [found |-> FALSE, company |-> << >>, fda_approvals |-> << >>,
              clinical_trials |-> << >>]
        ELSE [found |-> TRUE, company |-> <<companies[i]>>,
              fda_approvals |->
                  FilterApprovals(StoreGet(st, "fda_approvals", << >>), companies[i]),
              clinical_trials |->
                  FilterTrials(StoreGet(st, "clinical_trials", << >>), companies[i])]

(***************************************************************************)
(* The processes: the periodic task and the POST /api/collect handlers     *)
(***************************************************************************)
Periodic == "periodic"
Handlers == {"h1"}
Procs == {Periodic} \cup Handlers

MaxRuns == 3           \* runs started in one behaviour
MaxClock == 2          \* readings of datetime.now() told apart

\* max_companies at the two call sites
MaxCompanies(p) == IF p = Periodic THEN 50 ELSE 30

VARIABLES
    store,      \* global_data_store
    origin,     \* for each key of the store, the run whose update wrote it
    pc,         \* where each process stands
    orch,       \* each process's orchestrator and the locals of its run
    result,     \* what the last finished run of each process ended with
    runId,      \* the number of each process's current or last run
    nextRun,    \* the number the next run gets
    now,        \* the clock
    resp,       \* the response the last step sent, if a GET handler took it
    args,       \* the upstream answers a merge is computed from
    ret,        \* what the adapters and the merge returned for args
    stage       \* how far the computation on args has got

vars == <<store, origin, pc, orch, result, runId, nextRun, now, resp,
          args, ret, stage>>

appvars == <<store, origin, pc, orch, result, runId, nextRun, now, resp>>
fnvars == <<args, ret, stage>>

Collecting(p) == pc[p] \in {"xbi", "nbi", "fda", "trials", "delay"}

NewOrch ==
    [start_time |-> 0, xbi_companies |-> PyList(<< >>), companies |-> << >>,
     data |-> NewData, all_trials |-> << >>, i |-> 0]

NoResp == [endpoint |-> "none", symbol |-> << >>, body |-> << >>, origin |-> {}]

NoArgs == [xbi |-> [kind |-> "error"], nbi |-> [kind |-> "error"],
           max_companies |-> 0]

NoRet ==
    [xbi_companies |-> PyList(<< >>), nbi_companies |-> PyList(<< >>),
     companies |-> << >>, snapshot |-> << >>, again |-> << >>,
     searched |-> << >>]

Init ==
    /\ args = NoArgs
    /\ ret = NoRet
    /\ stage = "none"
    /\ store = EmptyStore
    /\ origin = EmptyStore
    /\ pc = [p \in Procs |-> IF p = Periodic THEN "created" ELSE "idle"]
    /\ orch = [p \in Procs |-> NewOrch]
    /\ result = [p \in Procs |-> "none"]
    /\ runId = [p \in Procs |-> 0]
    /\ nextRun = 1
    /\ now = 1
    /\ resp = NoResp

\* where a process rests between runs: the periodic task in its
\* asyncio.sleep(4 * 60 * 60), a handler having returned
Rest(p) == IF p = Periodic THEN "sleeping" ELSE "idle"

\* a periodic task that dies of the exception
AfterException_Crash(p) == IF p = Periodic THEN "dead" ELSE "idle"

\* what `except Exception` makes of a run that raised: both callers log,
\* the handler returns the error payload, the periodic task goes on to sleep
AfterException(p) == Rest(p)

\* a caller that commits what the run had gathered when it raised
StoreAfterException_Commit(st, data) == StoreUpdate(st, data)

\* the store after a run that raised: neither caller reaches update()
StoreAfterException(st, data) == st

\* startup_event: asyncio.create_task(periodic_collection())
StartupEvent ==
    /\ pc[Periodic] = "created"
    /\ pc' = [pc EXCEPT ![Periodic] = "scheduled"]
    /\ UNCHANGED <<store, origin, orch, result, runId, nextRun, now>>
    /\ resp' = NoResp
    /\ UNCHANGED fnvars

\* the start of a run, up to the first await of get_xbi_holdings
BeginRun(p) ==
    /\ nextRun <= MaxRuns
    /\ pc' = [pc EXCEPT ![p] = "xbi"]
    /\ orch' = [orch EXCEPT ![p] = [NewOrch EXCEPT !.start_time = now]]
    /\ runId' = [runId EXCEPT ![p] = nextRun]
    /\ nextRun' = nextRun + 1
    /\ UNCHANGED <<store, origin, result, now>>
    /\ resp' = NoResp
    /\ UNCHANGED fnvars

\* periodic_collection: the top of `while True`, first entered when the
\* task is first run and again whenever the sleep is over
PeriodicTick ==
    /\ pc[Periodic] \in {"scheduled", "sleeping"}
    /\ BeginRun(Periodic)

\* trigger_collection: a POST /api/collect arrives
TriggerCollection(h) ==
    /\ pc[h] = "idle"
    /\ BeginRun(h)

\* the run raised: control leaves collect_all_data for the caller's except;
\* the orchestrator and the locals of the run are dropped
Raise(p, o) ==
    /\ pc' = [pc EXCEPT ![p] = AfterException(p)]
    /\ orch' = [orch EXCEPT ![p] = NewOrch]
    /\ result' = [result EXCEPT ![p] = "error"]
    /\ store' = StoreAfterException(store, o.data)
    /\ origin' = StoreAfterException(origin, [k \in DOMAIN o.data |-> runId[p]])
    /\ UNCHANGED <<runId, nextRun, now>>
    /\ resp' = NoResp
    /\ UNCHANGED fnvars

\* a run that stamps its snapshot with the time it started at
Timestamp_StartTime(o, clock) == o.start_time

\* self.data['collection_timestamp'] = datetime.now().isoformat(): the
\* clock as read at the end of the run
Timestamp(o, clock) == clock

\* the end of collect_all_data and the caller's update(), with no await
\* between the reading of the clock and the update
Finalize(p, o) ==
    \E t \in {now, Min(now + 1, MaxClock)} :
        LET data == [o.data EXCEPT !.clinical_trials = o.all_trials,
                                   !.collection_timestamp = Timestamp(o, t)]
        IN  /\ now' = t
            /\ orch' = [orch EXCEPT ![p] = NewOrch]
            /\ store' = StoreUpdate(store, data)
            /\ origin' = StoreUpdate(origin, [k \in DOMAIN data |-> runId[p]])
            /\ pc' = [pc EXCEPT ![p] = Rest(p)]
            /\ result' = [result EXCEPT ![p] = "success"]
            /\ UNCHANGED <<runId, nextRun>>
            /\ resp' = NoResp
            /\ UNCHANGED fnvars

\* get_xbi_holdings returns; get_nbi_holdings is awaited next
XbiReturn(p, outcome) ==
    /\ pc[p] = "xbi"
    /\ orch' = [orch EXCEPT ![p].xbi_companies = GetXbiHoldings(outcome)]
    /\ pc' = [pc EXCEPT ![p] = "nbi"]
    /\ UNCHANGED <<store, origin, result, runId, nextRun, now>>
    /\ resp' = NoResp
    /\ UNCHANGED fnvars

\* get_nbi_holdings returns: the merge, self.data['companies'], and on to
\* the await of get_recent_drug_approvals
NbiReturn(p, outcome) ==
    /\ pc[p] = "nbi"
    /\ LET nbi_companies == GetNbiHoldings(outcome)
           xbi_companies == orch[p].xbi_companies
           companies == CombinedHoldings(xbi_companies, nbi_companies)
       IN  IF CombineRaises(xbi_companies, nbi_companies)
           THEN Raise(p, orch[p])
           ELSE /\ orch' = [orch EXCEPT
                       ![p].companies = companies,
                       ![p].data.companies =
                           SnapshotCompanies(companies, MaxCompanies(p))]
                /\ pc' = [pc EXCEPT ![p] = "fda"]
                /\ UNCHANGED <<store, origin, result, runId, nextRun, now>>
                /\ resp' = NoResp
                /\ UNCHANGED fnvars

\* get_recent_drug_approvals returns: self.data['fda_approvals'], then the
\* loop up to its first search, or to the end when nothing is searched
FdaReturn(p, outcome) ==
    /\ pc[p] = "fda"
    /\ LET o == [orch[p] EXCEPT !.data.fda_approvals = GetRecentDrugApprovals(outcome),
                                !.all_trials = << >>,
                                !.i = NextSearched(orch[p].companies, 0)]
       IN  IF o.i = 0
           THEN Finalize(p, o)
           ELSE /\ orch' = [orch EXCEPT ![p] = o]
                /\ pc' = [pc EXCEPT ![p] = "trials"]
                /\ UNCHANGED <<store, origin, result, runId, nextRun, now>>
                /\ resp' = NoResp
                /\ UNCHANGED fnvars

\* search_company_trials returns: all_trials.extend(trials), which raises
\* TypeError on None, then the await of asyncio.sleep(1)
TrialsReturn(p, outcome) ==
    /\ pc[p] = "trials"
    /\ LET trials == SearchCompanyTrials(outcome)
       IN  IF trials.none
           THEN Raise(p, orch[p])
           ELSE /\ orch' = [orch EXCEPT
                       ![p].all_trials = orch[p].all_trials \o trials.items]
                /\ pc' = [pc EXCEPT ![p] = "delay"]
                /\ UNCHANGED <<store, origin, result, runId, nextRun, now>>
                /\ resp' = NoResp
                /\ UNCHANGED fnvars

\* asyncio.sleep(1) is over: the next company of the loop, or the end
DelayReturn(p) ==
    /\ pc[p] = "delay"
    /\ LET o == [orch[p] EXCEPT !.i = NextSearched(orch[p].companies, orch[p].i)]
       IN  IF o.i = 0
           THEN Finalize(p, o)
           ELSE /\ orch' = [orch EXCEPT ![p] = o]
                /\ pc' = [pc EXCEPT ![p] = "trials"]
                /\ UNCHANGED <<store, origin, result, runId, nextRun, now>>
                /\ resp' = NoResp
                /\ UNCHANGED fnvars

\* a caller that commits what the run had gathered when it was cancelled
StoreAfterCancel_Commit(st, data) == StoreUpdate(st, data)

\* the store after a run was cancelled: CancelledError is not an
\* Exception, so it passes both callers' `except Exception` and neither
\* reaches update()
StoreAfterCancel(st, data) == st

\* The HTTP layer or the shutdown of the process cancels the task of p
\* while it is suspended in an await of collect_all_data: CancelledError
\* is raised there and leaves the handler, or ends the periodic task.  The
\* orchestrator is garbage from here on; the model keeps it until p's
\* next run begins.
Cancel(p) ==
    /\ Collecting(p)
    /\ pc' = [pc EXCEPT ![p] = IF p = Periodic THEN "cancelled" ELSE "idle"]
    /\ result' = [result EXCEPT ![p] = "cancelled"]
    /\ store' = StoreAfterCancel(store, orch[p].data)
    /\ origin' = StoreAfterCancel(origin, [k \in DOMAIN orch[p].data |-> runId[p]])
    /\ UNCHANGED <<orch, runId, nextRun, now>>
    /\ resp' = NoResp
    /\ UNCHANGED fnvars

\* GET /api/companies, /api/fda-approvals, /api/clinical-trials
ReadList(key) ==
    /\ resp' = [endpoint |-> key, symbol |-> << >>,
                body |-> GetList(store, key),
                origin |-> {StoreGet(origin, key, 0)}]
    /\ UNCHANGED <<store, origin, pc, orch, result, runId, nextRun, now>>
    /\ UNCHANGED fnvars

\* GET /api/stats
ReadStats ==
    /\ resp' = [endpoint |-> "stats", symbol |-> << >>,
                body |-> GetStats(store),
                origin |-> {StoreGet(origin, k, 0) : k \in Keys}]
    /\ UNCHANGED <<store, origin, pc, orch, result, runId, nextRun, now>>
    /\ UNCHANGED fnvars

\* GET /api/company/{symbol}
ReadCompany(symbol) ==
    /\ LET body == CompanyDetails(store, symbol)
           read == IF body.found
                   THEN {"companies", "fda_approvals", "clinical_trials"}
                   ELSE {"companies"}
       IN  resp' = [endpoint |-> "company", symbol |-> symbol, body |-> body,
                    origin |-> {StoreGet(origin, k, 0) : k \in read}]
    /\ UNCHANGED <<store, origin, pc, orch, result, runId, nextRun, now>>
    /\ UNCHANGED fnvars

(***************************************************************************)
(* What the upstream services answer                                       *)
(***************************************************************************)
Ok(holdings) == [kind |-> "ok", holdings |-> holdings]
OkResults(results) == [kind |-> "ok", results |-> results]
OkStudies(studies) == [kind |-> "ok", studies |-> studies]
BadStatus == [kind |-> "status"]
TransportError == [kind |-> "error"]

Holding(symbol, name, weight, marketValue) ==
    [symbol |-> symbol, name |-> name, weight |-> weight,
     marketValue |-> marketValue]

Gilead == <<"G", "i">>
Vertex == <<"V", "x">>
VertexInc == <<"V", "x", " ", "I">>

XbiOutcomes ==
    {Ok(<<Holding(<<"G">>, Gilead, 420, Missing)>>), BadStatus, TransportError}

NbiOutcomes ==
    {Ok(<<Holding(<<"V">>, Vertex, 200, 2300000)>>), BadStatus}

FdaOutcomes ==
    {OkResults(<<[sponsor_name |-> VertexInc, application_number |-> 1]>>),
     BadStatus}

TrialsOutcomes ==
    {OkStudies(<<[NCTId |-> <<"1">>, LeadSponsorName |-> VertexInc]>>),
     BadStatus}

Symbols == {<<"v">>}

Next ==
    \/ StartupEvent
    \/ PeriodicTick
    \/ \E h \in Handlers : TriggerCollection(h)
    \/ \E p \in Procs : \E outcome \in XbiOutcomes : XbiReturn(p, outcome)
    \/ \E p \in Procs : \E outcome \in NbiOutcomes : NbiReturn(p, outcome)
    \/ \E p \in Procs : \E outcome \in FdaOutcomes : FdaReturn(p, outcome)
    \/ \E p \in Procs : \E outcome \in TrialsOutcomes : TrialsReturn(p, outcome)
    \/ \E p \in Procs : DelayReturn(p)
    \/ \E key \in Keys \ {"collection_timestamp"} : ReadList(key)
    \/ ReadStats
    \/ \E symbol \in Symbols : ReadCompany(symbol)

Spec == Init /\ [][Next]_vars

\* the steps of a run of process p once it has begun: each is the end of
\* an await
RunStep(p) ==
    \/ \E outcome \in XbiOutcomes : XbiReturn(p, outcome)
    \/ \E outcome \in NbiOutcomes : NbiReturn(p, outcome)
    \/ \E outcome \in FdaOutcomes : FdaReturn(p, outcome)
    \/ \E outcome \in TrialsOutcomes : TrialsReturn(p, outcome)
    \/ DelayReturn(p)

\* Every await of a run ends (the sessions have timeouts, the sleeps are
\* finite) and the event loop runs every task that is ready.  A process
\* has at most one step enabled at a time, so weak fairness of the
\* disjunction is weak fairness of each step.
Fairness ==
    /\ WF_vars(StartupEvent \/ PeriodicTick)
    /\ \A p \in Procs : WF_vars(RunStep(p))

\* The processes that write: the GET handlers change nothing but resp, and
\* enable and disable no step of a run, so they are left out of the
\* specification the scheduling is checked under.
WriterNext ==
    \/ StartupEvent
    \/ PeriodicTick
    \/ \E h \in Handlers : TriggerCollection(h)
    \/ \E p \in Procs : \E outcome \in XbiOutcomes : XbiReturn(p, outcome)
    \/ \E p \in Procs : \E outcome \in NbiOutcomes : NbiReturn(p, outcome)
    \/ \E p \in Procs : \E outcome \in FdaOutcomes : FdaReturn(p, outcome)
    \/ \E p \in Procs : \E outcome \in TrialsOutcomes : TrialsReturn(p, outcome)
    \/ \E p \in Procs : DelayReturn(p)

FairSpec == Init /\ [][WriterNext]_vars /\ Fairness

\* The processes that write, and the cancellation of their runs.
CancelNext ==
    \/ StartupEvent
    \/ PeriodicTick
    \/ \E h \in Handlers : TriggerCollection(h)
    \/ \E p \in Procs : \E outcome \in XbiOutcomes : XbiReturn(p, outcome)
    \/ \E p \in Procs : \E outcome \in NbiOutcomes : NbiReturn(p, outcome)
    \/ \E p \in Procs : \E outcome \in FdaOutcomes : FdaReturn(p, outcome)
    \/ \E p \in Procs : \E outcome \in TrialsOutcomes : TrialsReturn(p, outcome)
    \/ \E p \in Procs : DelayReturn(p)
    \/ \E p \in Procs : Cancel(p)

CancelSpec == Init /\ [][CancelNext]_vars

(***************************************************************************)
(* The adapters and the merge as functions of what upstream answers: the   *)
(* computation of get_combined_holdings and of self.data['companies'],     *)
(* applied step by step to answers drawn from the sets below.              *)
(***************************************************************************)
MaxFeedLen == 2        \* holdings in a drawn feed

Letters == <<"A", "B", "C", "D", "E", "L", "N", "P">>

\* two-letter symbols, all different, for feeds longer than max_companies
Sym(i) == <<Letters[((i - 1) \div 8) + 1], Letters[((i - 1) % 8) + 1]>>

LongFeed(n) == [i \in 1..n |-> Holding(Sym(i), Sym(i), 100 + i, 500)]

XbiHoldings ==
    {Holding(<<"G">>, Gilead, 420, Missing),
     Holding(<<"G">>, Gilead, 15, 1500000000),
     Holding(<<" ", "V">>, Vertex, 10, 2300000),
     Holding(<<"V">>, MissingStr, 5, 500),
     Holding(<<" ">>, Gilead, 50, 500),
     Holding(<<"A">>, <<"A">>, BadNum, Missing)}

NbiHoldings ==
    {Holding(<<"G">>, Gilead, 380, 1500000000),
     Holding(<<"G">>, Gilead, 200, Missing),
     Holding(<<"V">>, Vertex, 10, 2300000),
     Holding(<<"V">>, Vertex, 120, BadNum),
     Holding(<<"B">>, <<"B">>, Missing, 500)}

\* the sequences over S of length at most n
RECURSIVE SeqsUpTo(_, _)
SeqsUpTo(S, n) ==
    IF n = 0 THEN {<< >>}
    ELSE LET shorter == SeqsUpTo(S, n - 1)
         IN  shorter \cup {Append(q, x) : q \in shorter, x \in S}

XbiAnswers ==
    {Ok(f) : f \in SeqsUpTo(XbiHoldings, MaxFeedLen)}
        \cup {Ok(LongFeed(31)), Ok(LongFeed(51)), BadStatus, TransportError}

NbiAnswers ==
    {Ok(f) : f \in SeqsUpTo(NbiHoldings, MaxFeedLen)}
        \cup {Ok(<<Holding(Sym(31), Sym(31), 77, Missing)>>),
              Ok(<<Holding(Sym(51), Sym(51), 77, Missing)>>),
              BadStatus, TransportError}

MergeInit ==
    /\ args \in [xbi : XbiAnswers, nbi : NbiAnswers, max_companies : {30, 50}]
    /\ ret = NoRet
    /\ stage = "start"
    /\ store = EmptyStore
    /\ origin = EmptyStore
    /\ pc = [p \in Procs |-> IF p = Periodic THEN "created" ELSE "idle"]
    /\ orch = [p \in Procs |-> NewOrch]
    /\ result = [p \in Procs |-> "none"]
    /\ runId = [p \in Procs |-> 0]
    /\ nextRun = 1
    /\ now = 1
    /\ resp = NoResp

\* xbi_companies = await self.get_xbi_holdings()
ApplyXbi ==
    /\ stage = "start"
    /\ ret' = [ret EXCEPT !.xbi_companies = GetXbiHoldings(args.xbi)]
    /\ stage' = "xbi"
    /\ UNCHANGED <<args, appvars>>

\* nbi_companies = await self.get_nbi_holdings()
ApplyNbi ==
    /\ stage = "xbi"
    /\ ret' = [ret EXCEPT !.nbi_companies = GetNbiHoldings(args.nbi)]
    /\ stage' = "nbi"
    /\ UNCHANGED <<args, appvars>>

\* the two loops of get_combined_holdings and its return
ApplyCombine ==
    /\ stage = "nbi"
    /\ IF CombineRaises(ret.xbi_companies, ret.nbi_companies)
       THEN stage' = "raised" /\ ret' = ret
       ELSE /\ stage' = "combined"
            /\ ret' = [ret EXCEPT !.companies =
                          CombinedHoldings(ret.xbi_companies, ret.nbi_companies)]
    /\ UNCHANGED <<args, appvars>>

\* self.data['companies'] = [... for c in companies[:max_companies]]
ApplySnapshot ==
    /\ stage = "combined"
    /\ ret' = [ret EXCEPT !.snapshot =
                  SnapshotCompanies(ret.companies, args.max_companies)]
    /\ stage' = "snapshot"
    /\ UNCHANGED <<args, appvars>>

\* get_combined_holdings once more on the lists the first call was given
ApplyAgain ==
    /\ stage = "snapshot"
    /\ ret' = [ret EXCEPT !.again =
                  MergedTwice(ret.xbi_companies.items, ret.nbi_companies.items)]
    /\ stage' = "again"
    /\ UNCHANGED <<args, appvars>>

\* `for company in companies[:5]` of collect_all_data, on the merged list
ApplySearch ==
    /\ stage = "again"
    /\ ret' = [ret EXCEPT !.searched = SearchedFrom(ret.companies, 0)]
    /\ stage' = "searched"
    /\ UNCHANGED <<args, appvars>>

MergeNext ==
    \/ ApplyXbi
    \/ ApplyNbi
    \/ ApplyCombine
    \/ ApplySnapshot
    \/ ApplyAgain
    \/ ApplySearch

MergeSpec == MergeInit /\ [][MergeNext]_vars

(***************************************************************************)
(* get_company_details as a function of the store: the store holds the    *)
(* snapshot of one finished run, drawn from the sets below, and the        *)
(* handler is called on it.                                                *)
(***************************************************************************)
MaxDetailLen == 1      \* approvals, and trials, in a drawn snapshot

VertexPharmaceuticals ==
    <<"V", "e", "r", "t", "e", "x", " ", "P", "h", "a",
      "r", "m", "a", "c", "e", "u", "t", "i", "c", "a",
      "l", "s">>

VertexPharmaceuticalsIncorporated ==
    <<"V", "e", "r", "t", "e", "x", " ", "P", "h", "a",
      "r", "m", "a", "c", "e", "u", "t", "i", "c", "a",
      "l", "s", " ", "I", "n", "c", "o", "r", "p", "o",
      "r", "a", "t", "e", "d">>

VertexUpper ==
    <<"V", "E", "R", "T", "E", "X", " ", "P", "H", "A",
      "R", "M", "A", "C", "E", "U", "T", "I", "C", "A",
      "L", "S", " ", "I", "N", "C">>

GileadSciences ==
    <<"G", "i", "l", "e", "a", "d", " ", "S", "c", "i",
      "e", "n", "c", "e", "s">>

VRTX == <<"V", "R", "T", "X">>
GILD == <<"G", "I", "L", "D">>
Vrtx == <<"v", "r", "t", "x">>

\* the companies of a run whose XBI feed was one holding and whose IBB feed
\* was empty
OneHoldingSnapshot(holding) ==
    SnapshotCompanies(
        CombinedHoldings(GetXbiHoldings(Ok(<<holding>>)), PyList(<< >>)), 30)

DetailCompanies ==
    {<< >>,
     <<CompanyDict(Company(VRTX, VertexPharmaceuticals, NA, 250, 310))>>,
     <<CompanyDict(Company(GILD, GileadSciences, NA, 420, NoneVal)),
       CompanyDict(Company(VRTX, VertexPharmaceuticals, NA, 250, NoneVal))>>,
     OneHoldingSnapshot(Holding(Vrtx, VertexPharmaceuticals, 250, Missing))}

Sponsors ==
    {VertexPharmaceuticalsIncorporated, VertexUpper, <<"V", "e", "r", "t", "e", "x">>,
     GileadSciences}

DetailApprovals ==
    SeqsUpTo({[company |-> sp, application_number |-> 1] : sp \in Sponsors},
             MaxDetailLen)

DetailTrials ==
    SeqsUpTo({[nct_id |-> <<"1">>, sponsor |-> sp] : sp \in Sponsors},
             MaxDetailLen)

DetailSymbols == {VRTX, Vrtx, GILD, <<"X">>}

DetailInit ==
    /\ \E cs \in DetailCompanies, as \in DetailApprovals, ts \in DetailTrials :
          store = StoreUpdate(EmptyStore,
                      [companies |-> cs, fda_approvals |-> as,
                       clinical_trials |-> ts, collection_timestamp |-> 1])
    /\ origin = [k \in Keys |-> 1]
    /\ pc = [p \in Procs |-> IF p = Periodic THEN "created" ELSE "idle"]
    /\ orch = [p \in Procs |-> NewOrch]
    /\ result = [p \in Procs |-> IF p = Periodic THEN "none" ELSE "success"]
    /\ runId = [p \in Procs |-> IF p = Periodic THEN 0 ELSE 1]
    /\ nextRun = 2
    /\ now = 1
    /\ resp = NoResp
    /\ args = NoArgs
    /\ ret = NoRet
    /\ stage = "none"

DetailNext ==
    \/ \E symbol \in DetailSymbols : ReadCompany(symbol)
    \/ ReadStats
    \/ \E key \in Keys \ {"collection_timestamp"} : ReadList(key)

DetailSpec == DetailInit /\ [][DetailNext]_vars

(***************************************************************************)
(* The claims                                                              *)
(***************************************************************************)

\* C1: whatever way an adapter's fetch fails in, the run completes without
\* raising: no run of any process ever ends in an exception.
C1_RunNeverRaises == \A p \in Procs : result[p] # "error"

\* C2: every read of the store sees one generation: all the fields the
\* handler read were written by the update of one run, which has finished,
\* or all are the initial values.
C2_SingleGeneration ==
    resp.endpoint # "none" =>
        /\ Cardinality(resp.origin) = 1
        /\ \A g \in resp.origin :
              \/ g = 0
              \/ /\ g < nextRun
                 /\ \A p \in Procs : Collecting(p) => runId[p] # g

\* a read of all four fields, after a second run has replaced the store of
\* a first and while a third is collecting
C2_Witness ==
    /\ resp.endpoint = "stats"
    /\ resp.origin = {2}
    /\ resp.body.companies_count > 0
    /\ \E p \in Procs : Collecting(p)

\* C3: runs are serialized: at no time are two runs collecting.
C3_RunsSerialized == Cardinality({p \in Procs : Collecting(p)}) <= 1

\* C4: a periodic run that ended in a fault is followed by a new periodic
\* run (as long as the model has a run left to start), and the periodic
\* task is never dead.
C4_SchedulerSurvives ==
    /\ [](pc[Periodic] # "dead")
    /\ (result[Periodic] = "error" /\ ~Collecting(Periodic))
          ~> (Collecting(Periodic) \/ nextRun > MaxRuns)

\* the periodic task collecting again after a run of its own that failed
C4_Witness == result[Periodic] = "error" /\ pc[Periodic] = "xbi"

\* C5: the step in which a run ends without success changes nothing in the
\* store and, in a handler, yields the error payload; and no field of the
\* store was ever written by a run that failed.
C5_FailedRunLeavesStore ==
    /\ [][\A p \in Procs :
            (Collecting(p) /\ ~Collecting(p)' /\ result'[p] # "success")
            => /\ store' = store
               /\ origin' = origin
               /\ p \in Handlers => result'[p] = "error"]_vars
    /\ [](\A p \in Procs :
            (~Collecting(p) /\ result[p] = "error")
            => \A k \in DOMAIN origin : origin[k] # runId[p])

\* both callers have seen a run fail, and the snapshot of an earlier run is
\* still what the store holds
C5_Witness ==
    /\ \A p \in Procs : ~Collecting(p) /\ result[p] = "error"
    /\ Len(StoreGet(store, "companies", << >>)) > 0
    /\ StoreGet(store, "collection_timestamp", NoneVal) # NoneVal

\* the records of a list with a given symbol, as positions
Occurrences(list, symbol) == {i \in 1..Len(list) : list[i].symbol = symbol}

SymbolsOf(list) == {list[i].symbol : i \in 1..Len(list)}

\* the last record of a list with a given symbol
LastOf(list, symbol) ==
    list[CHOOSE i \in Occurrences(list, symbol) :
            \A j \in Occurrences(list, symbol) : j <= i]

\* the symbols both adapters returned
InBoth ==
    SymbolsOf(ret.xbi_companies.items) \cap SymbolsOf(ret.nbi_companies.items)

\* C6: for a symbol each source lists once, the merged record has the
\* first source's market cap when that source had one and the second
\* source's when it had none ("N/A"), the second source's nbi_weight and
\* the first source's xbi_weight.
C6_MergePrecedence ==
    stage \in {"combined", "snapshot"} =>
        \A symbol \in InBoth :
            LET xbi == ret.xbi_companies.items
                nbi == ret.nbi_companies.items
                x == LastOf(xbi, symbol)
                n == LastOf(nbi, symbol)
                m == ret.companies[IndexOf(ret.companies, symbol)]
            IN  (Cardinality(Occurrences(xbi, symbol)) = 1
                    /\ Cardinality(Occurrences(nbi, symbol)) = 1)
                => /\ m.market_cap =
                        (IF x.market_cap # NA THEN x.market_cap ELSE n.market_cap)
                   /\ m.nbi_weight = n.nbi_weight
                   /\ m.xbi_weight = x.xbi_weight

DistinctSymbols(list) ==
    \A i, j \in 1..Len(list) : i # j => list[i].symbol # list[j].symbol

\* a snapshot record that carries the weights both sources gave the symbol
CarriesBoth(record, symbol) ==
    /\ record.symbol = symbol
    /\ record.xbi_weight = LastOf(ret.xbi_companies.items, symbol).xbi_weight
    /\ record.nbi_weight = LastOf(ret.nbi_companies.items, symbol).nbi_weight
    /\ record.xbi_weight > 0
    /\ record.nbi_weight > 0

\* C7 as stated: in the snapshot symbols are pairwise distinct, and every
\* symbol both sources returned has exactly one record there, carrying
\* both weights.
C7_SnapshotHasEveryShared ==
    stage = "snapshot" =>
        /\ DistinctSymbols(ret.snapshot)
        /\ \A symbol \in InBoth :
              /\ Cardinality(Occurrences(ret.snapshot, symbol)) = 1
              /\ CarriesBoth(LastOf(ret.snapshot, symbol), symbol)

\* C7 amended: symbols are pairwise distinct in the merged list and in the
\* snapshot; a symbol both sources returned has exactly one record in the
\* merged list, and in the snapshot it has that one record, carrying both
\* weights, when it is among the first max_companies of the merged list
\* and no record when it is not.
C7_SymbolsUnique ==
    stage = "snapshot" =>
        /\ DistinctSymbols(ret.companies)
        /\ DistinctSymbols(ret.snapshot)
        /\ \A symbol \in InBoth :
              LET k == IndexOf(ret.companies, symbol)
              IN  /\ Cardinality(Occurrences(ret.companies, symbol)) = 1
                  /\ k <= args.max_companies
                        => /\ Cardinality(Occurrences(ret.snapshot, symbol)) = 1
                           /\ CarriesBoth(ret.snapshot[k], symbol)
                  /\ k > args.max_companies
                        => Occurrences(ret.snapshot, symbol) = {}

\* a snapshot from a first source that repeats a symbol the second source
\* has too
C7_Witness ==
    /\ stage = "snapshot"
    /\ \E symbol \in InBoth :
          /\ Cardinality(Occurrences(ret.xbi_companies.items, symbol)) = 2
          /\ Cardinality(Occurrences(ret.snapshot, symbol)) = 1

\* C8: the nct_id values of the trials in the store are pairwise distinct.
C8_TrialIdsDistinct ==
    LET trials == StoreGet(store, "clinical_trials", << >>)
    IN  \A i, j \in 1..Len(trials) : i # j => trials[i].nct_id # trials[j].nct_id

\* a holding of a feed is in what the adapter returned
Appears(h, companies, field) ==
    \E i \in 1..Len(companies) :
        /\ companies[i].symbol = Strip(GetStr(h.symbol, EmptyStr))
        /\ companies[i][field] = GetOr(h.weight, 0)

\* the threshold of C9 for one adapter's answer and result
Threshold(answer, companies, field) ==
    answer.kind = "ok" =>
        \A i \in 1..Len(answer.holdings) :
            LET h == answer.holdings[i]
                w == GetOr(h.weight, 0)
            IN  ~FloatRaises(w)
                => /\ w < MinWeight => ~Appears(h, companies.items, field)
                   /\ w >= MinWeight => Appears(h, companies.items, field)

\* C9: a holding below the minimum weight is never in the adapter's
\* output and a holding at or above it always is, for both adapters.
C9_Threshold ==
    /\ stage \in {"xbi", "nbi"}
          => Threshold(args.xbi, ret.xbi_companies, "xbi_weight")
    /\ stage = "nbi"
          => Threshold(args.nbi, ret.nbi_companies, "nbi_weight")

Range(seq) == {seq[i] : i \in 1..Len(seq)}

\* C10: the detail view of a company holds every approval and every trial
\* of the store whose sponsor contains the company's name, letter case
\* aside.
C10_CrossReference ==
    (resp.endpoint = "company" /\ resp.body.found) =>
        LET company == resp.body.company[1]
        IN  /\ \A d \in Range(StoreGet(store, "fda_approvals", << >>)) :
                  Contains(Lower(company.name), Lower(d.company))
                  => d \in Range(resp.body.fda_approvals)
            /\ \A t \in Range(StoreGet(store, "clinical_trials", << >>)) :
                  Contains(Lower(company.name), Lower(t.sponsor))
                  => t \in Range(resp.body.clinical_trials)

\* C11: the lookup matches the symbol without regard to letter case: it
\* returns every company of the store whose symbol is the requested one,
\* letter case aside, and answers not-found when the store has none.
C11_LookupIgnoresCase ==
    resp.endpoint = "company" =>
        LET companies == StoreGet(store, "companies", << >>)
            same == {i \in 1..Len(companies) :
                        Lower(companies[i].symbol) = Lower(resp.symbol)}
        IN  /\ \A i \in same :
                  resp.body.found /\ resp.body.company = <<companies[i]>>
            /\ same = {} => ~resp.body.found

\* C12: no company with an empty symbol is in the merged list or in the
\* snapshot made from it: a holding whose identifier is absent or blank is
\* dropped.
C12_NoEmptySymbol ==
    /\ stage \in {"combined", "snapshot"}
          => \A i \in 1..Len(ret.companies) : ret.companies[i].symbol # EmptyStr
    /\ stage = "snapshot"
          => \A i \in 1..Len(ret.snapshot) : ret.snapshot[i].symbol # EmptyStr

\* C13: whatever upstream answers, an adapter returns a sequence, never
\* None: here the two ETF adapters, on every answer drawn.
C13_AdapterReturnsSequence ==
    /\ stage \in {"xbi", "nbi"} => ~ret.xbi_companies.none
    /\ stage = "nbi" => ~ret.nbi_companies.none

\* C14: the merge run a second time on the same two lists, whose records
\* the first run may have changed in place, gives the list the first run
\* gave: the same symbols in the same order with the same fields.
C14_MergeIdempotent == stage = "again" => ret.again = ret.companies

\* a second merge after a first that wrote the second source's weight into
\* a record of the first source, beside a symbol only the second source has
C14_Witness ==
    /\ stage = "again"
    /\ Len(ret.again) >= 2
    /\ \E symbol \in InBoth :
          /\ LastOf(ret.xbi_companies.items, symbol).nbi_weight = NoneVal
          /\ LastOf(ret.again, symbol).nbi_weight > 0
    /\ SymbolsOf(ret.nbi_companies.items) \ SymbolsOf(ret.xbi_companies.items) # {}

\* C15: the step in which a run is cancelled changes nothing in the store,
\* whatever the run had gathered, and no field of the store was written by
\* a run that was cancelled.
C15_CancelledRunCommitsNothing ==
    /\ [][\A p \in Procs :
            (Collecting(p) /\ ~Collecting(p)' /\ result'[p] = "cancelled")
            => store' = store /\ origin' = origin]_vars
    /\ [](\A p \in Procs :
            (~Collecting(p) /\ result[p] = "cancelled")
            => \A k \in DOMAIN origin : origin[k] # runId[p])

\* a handler's run cancelled after it had its companies, approvals and
\* some trials, with the snapshot of an earlier run in the store
C15_Witness ==
    \E h \in Handlers :
        /\ ~Collecting(h)
        /\ result[h] = "cancelled"
        /\ Len(orch[h].data.companies) > 0
        /\ Len(orch[h].all_trials) > 0
        /\ Len(StoreGet(store, "companies", << >>)) > 0
        /\ StoreGet(store, "collection_timestamp", NoneVal) # NoneVal

\* the collection_timestamp of a store; None, before the first update,
\* counts as earlier than every time
StoredTimestamp(st) == StoreGet(st, "collection_timestamp", NoneVal)

\* C17: the timestamp in the store never decreases, whatever way runs
\* overlap; and the step in which a run finishes with success leaves the
\* store holding that run's snapshot, stamped with the clock as it then is.
C17_TimestampMonotonic ==
    /\ [][StoredTimestamp(store') >= StoredTimestamp(store)]_vars
    /\ [][\A p \in Procs :
            (Collecting(p) /\ ~Collecting(p)' /\ result'[p] = "success")
            => /\ \A k \in Keys : origin'[k] = runId[p]
               /\ StoredTimestamp(store') = now']_vars

\* two runs that overlapped: the second to start has finished and updated
\* the store, and the first has finished after it, at time 2, and is what
\* the store holds
C17_Witness ==
    /\ \A p \in Procs : ~Collecting(p) /\ result[p] = "success"
    /\ runId[Periodic] = 1
    /\ \E h \in Handlers : runId[h] = 2
    /\ \A k \in Keys : origin[k] = 1
    /\ StoredTimestamp(store) = 2

\* the ETF weight of a merged company: its weight in the two funds together
EtfWeight(c) == OrZero(c.xbi_weight) + OrZero(c.nbi_weight)

\* C16: at most 5 companies are searched for trials, and each of them has
\* an ETF weight at least that of every merged company that is not
\* searched.
C16_TopFiveByWeight ==
    stage = "searched" =>
        /\ Len(ret.searched) <= TopCompanies
        /\ \A k \in Range(ret.searched) :
              \A u \in (1..Len(ret.companies)) \ Range(ret.searched) :
                  EtfWeight(ret.companies[k]) >= EtfWeight(ret.companies[u])

====
